---- MODULE Spec2Model ----
(***************************************************************************)
(* A model of the Ceph collector (src/collectors/ceph/ceph.py): the schema *)
(* walk of flatten_dictionary, lookup_dict_path, the time and byte-unit     *)
(* conversions, _publish_longrunavg, _publish_stats and collect().          *)
(*                                                                         *)
(* Python values are tagged records [k, v]:                                *)
(*   k = "int"   v an integer          k = "str"  v a sequence of characters*)
(*   k = "float" v = <<num, den>>, the exact rational num/den in lowest     *)
(*               terms (rounding of the binary float is not modelled)      *)
(*   k = "dict"  v the items: a sequence of <<key, value>> pairs with       *)
(*               distinct keys (character sequences), in the mapping's own *)
(*               iteration order                                          *)
(*   k = "none"  None                                                      *)
(* A Python string is the sequence of its one-character strings, so that   *)
(* sorting, endswith, replace, split and join are computed character by    *)
(* character.                                                              *)
(***************************************************************************)
EXTENDS Integers, Sequences, FiniteSets, TLC

VARIABLES
    byte_unit,       \* self.config['byte_unit']: the ordered list of unit names
    path,            \* the list object bound to flatten_dictionary's default `path=[]`
    pc,              \* "idle", "query", "walk", "body", "raised", "bytes", "bytes_done"
    pass,            \* number of collect() calls made so far
    nsock,           \* number of socket paths _get_socket_paths returned in this pass
    sock,            \* number of socket paths the loop of collect() has taken
    counter_prefix,  \* argument of _publish_stats
    stats,           \* argument of _publish_stats
    schema,          \* argument of _publish_stats
    gen,             \* the suspended generator: one frame per active flatten_dictionary call
    item,            \* the loop variables `path, type` of _publish_stats
    leafno,          \* number of pairs the generator has yielded in this _publish_stats call
    published,       \* publish_gauge / publish_counter calls of this _publish_stats call
    emitted,         \* the calls made by the last execution of the loop body
    err,             \* the exception that left the last step ("" if none)
    base,            \* history: content of `path` when the generator was created
    yielded,         \* history: the pair as the generator yielded it, before the body ran
    name,            \* argument of _get_byte_metrics
    metric_value,    \* argument of _get_byte_metrics
    result           \* return value of _get_byte_metrics

vars == <<byte_unit, path, pc, pass, nsock, sock, counter_prefix, stats, schema, gen,
          item, leafno, published, emitted, err, base, yielded, name, metric_value, result>>

----------------------------------------------------------------------------
(* Bounds of the model *)

MaxSources == 2     \* socket paths discovered in one collect() pass
MaxPasses == 2      \* collect() calls made on one collector process

----------------------------------------------------------------------------
(* Program constants *)

_NSEC_PER_SEC == 1000000000
_PERFCOUNTER_NONE == 0
_PERFCOUNTER_TIME == 1
_PERFCOUNTER_U64 == 2
_PERFCOUNTER_LONGRUNAVG == 4
_PERFCOUNTER_COUNTER == 8

_PATH_SEP == <<".">>

\* the string literals of the source
S_type == <<"t","y","p","e">>
S_sum == <<"s","u","m">>
S_avgcount == <<"a","v","g","c","o","u","n","t">>
S_bytes == <<"b","y","t","e","s">>
S_avg_ == <<"a","v","g","_">>

----------------------------------------------------------------------------
(* Python values *)

IntV(n) == [k |-> "int", v |-> n]
StrV(s) == [k |-> "str", v |-> s]
DictV(f) == [k |-> "dict", v |-> f]
None == [k |-> "none", v |-> 0]
EmptyDict == DictV(<< >>)

RECURSIVE GCD(_, _)
GCD(a, b) == IF b = 0 THEN a ELSE GCD(b, a % b)

\* a float, kept as the rational num/den in lowest terms with den > 0
FloatV(num, den) ==
    LET g == GCD(IF num < 0 THEN -num ELSE num, den)
    IN  [k |-> "float", v |-> <<num \div g, den \div g>>]

\* bool(x): the truth value the conditional expression of line 225 tests
Truthy(x) ==
    CASE x.k = "int" -> x.v # 0
      [] x.k = "float" -> x.v[1] # 0
      [] x.k = "str" -> Len(x.v) > 0
      [] x.k = "dict" -> x.v # << >>
      [] OTHER -> FALSE

\* type & bit, for one of the four single-bit masks
HasBit(type, bit) == (type \div bit) % 2 = 1

----------------------------------------------------------------------------
(* Strings *)

\* the characters the model's strings use, in code-point order
Alphabet == <<"+", "-", ".", "0", "1", "2", "3", "4", "5", "6", "7", "8", "9", "_",
              "a", "b", "c", "d", "e", "f", "g", "h", "i", "j", "k", "l", "m",
              "n", "o", "p", "q", "r", "s", "t", "u", "v", "w", "x", "y", "z">>

Ord(c) == CHOOSE i \in 1..Len(Alphabet) : Alphabet[i] = c

\* a < b for two strings: the comparison sorted() applies to the keys
StrLess(a, b) ==
    \E i \in 1..Len(b) :
        /\ i <= Len(a) + 1
        /\ \A j \in 1..(i-1) : a[j] = b[j]
        /\ \/ i = Len(a) + 1
           \/ Ord(a[i]) < Ord(b[i])

EndsWith(s, suffix) ==
    /\ Len(s) >= Len(suffix)
    /\ SubSeq(s, Len(s) - Len(suffix) + 1, Len(s)) = suffix

StartsWith(s, prefix) ==
    /\ Len(s) >= Len(prefix)
    /\ SubSeq(s, 1, Len(prefix)) = prefix

\* s.replace(old, new): every non-overlapping occurrence, left to right
RECURSIVE Replace(_, _, _)
Replace(s, old, new) ==
    IF Len(s) < Len(old) THEN s
    ELSE IF StartsWith(s, old)
         THEN new \o Replace(SubSeq(s, Len(old) + 1, Len(s)), old, new)
         ELSE <<s[1]>> \o Replace(Tail(s), old, new)

\* s.split("."): the pieces between the dots
RECURSIVE SplitDot(_, _)
SplitDot(s, piece) ==
    IF s = << >> THEN <<piece>>
    ELSE IF Head(s) = "." THEN <<piece>> \o SplitDot(Tail(s), << >>)
         ELSE SplitDot(Tail(s), Append(piece, Head(s)))

\* sep.join(parts)
RECURSIVE Join(_, _)
Join(sep, parts) ==
    IF parts = << >> THEN << >>
    ELSE IF Len(parts) = 1 THEN parts[1]
         ELSE parts[1] \o sep \o Join(sep, Tail(parts))

\* _PATH_SEP.join(filter(None, [counter_prefix] + path)): empty segments are dropped
MetricName(prefix, p) ==
    Join(_PATH_SEP, SelectSeq(<<prefix>> \o p, LAMBDA seg : seg # << >>))

IsDigit(c) == Ord("0") <= Ord(c) /\ Ord(c) <= Ord("9")

RECURSIVE DigitsValue(_, _)
DigitsValue(s, acc) ==
    IF s = << >> THEN acc ELSE DigitsValue(Tail(s), 10 * acc + (Ord(Head(s)) - Ord("0")))

\* long(v) accepts an optional sign and then one or more decimal digits
\* (surrounding white space, which long() also accepts, is not in the alphabet)
IsLong(s) ==
    LET body == IF s # << >> /\ (Head(s) = "+" \/ Head(s) = "-") THEN Tail(s) ELSE s
    IN  body # << >> /\ \A i \in 1..Len(body) : IsDigit(body[i])

Long(s) ==
    IF Head(s) = "-" THEN 0 - DigitsValue(Tail(s), 0)
    ELSE IF Head(s) = "+" THEN DigitsValue(Tail(s), 0)
    ELSE DigitsValue(s, 0)

----------------------------------------------------------------------------
(* flatten_dictionary and lookup_dict_path *)

\* key in d, and d[key]
HasKey(items, key) == \E i \in 1..Len(items) : items[i][1] = key
Get(items, key) == items[CHOOSE i \in 1..Len(items) : items[i][1] = key][2]

\* sorted(input.items()): the keys are distinct, so the pairs sort by key
RECURSIVE Sorted(_)
Sorted(items) ==
    IF items = << >> THEN << >>
    ELSE LET m == CHOOSE i \in 1..Len(items) :
                      \A j \in 1..Len(items) : j = i \/ StrLess(items[i][1], items[j][1])
         IN  <<items[m]>> \o Sorted(SubSeq(items, 1, m - 1) \o SubSeq(items, m + 1, Len(items)))

\* del path[-1]
DelLast(s) == SubSeq(s, 1, Len(s) - 1)

\* A frame [d, i] is one active call of flatten_dictionary: d is its `input`, i the
\* number of items its for loop has taken.  Resume runs the generator from where it
\* is suspended until it yields again or is exhausted; `after` says that execution
\* continues at line 59 (after a yield, or after a nested call has returned).
RECURSIVE Resume(_, _, _)
Resume(frames, buf, after) ==
    IF frames = << >> THEN [done |-> TRUE, frames |-> << >>, path |-> buf, value |-> None]
    ELSE IF after THEN Resume(frames, DelLast(buf), FALSE)
    ELSE LET n == Len(frames)
             top == frames[n]
             items == Sorted(top.d)
         IN  IF top.i = Len(items)
             THEN Resume(SubSeq(frames, 1, n - 1), buf, TRUE)
             ELSE LET key == items[top.i + 1][1]
                      value == items[top.i + 1][2]
                      buf2 == Append(buf, key)
                      fr2 == [frames EXCEPT ![n].i = top.i + 1]
                  IN  IF value.k = "dict"
                      THEN Resume(Append(fr2, [d |-> value.v, i |-> 0]), buf2, FALSE)
                      ELSE [done |-> FALSE, frames |-> fr2, path |-> buf2, value |-> value]

\* (a yield of the buffer itself, not of a copy)
YieldAlias(buf, value) == [ref |-> "path", copy |-> << >>, type |-> value]
\* yield (path[:], value): the pair holds a new list, a copy of the buffer
YieldPair(buf, value) == [ref |-> "copy", copy |-> buf, type |-> value]

\* the list object the loop variable `path` of _publish_stats refers to
Deref(it, buf) == IF it.ref = "copy" THEN it.copy ELSE buf

RECURSIVE LookupFrom(_, _, _)
LookupFrom(d, comps, element) ==
    IF comps = << >> THEN [err |-> "", val |-> element]
    ELSE IF d.k # "dict" THEN [err |-> "TypeError", val |-> None]
    ELSE IF ~HasKey(d.v, Head(comps)) THEN [err |-> "KeyError", val |-> None]
    ELSE LookupFrom(Get(d.v, Head(comps)), Tail(comps), Get(d.v, Head(comps)))

\* (a lookup that answers None for a missing key instead of raising)
lookup_missing_is_none(d, p, extra) ==
    LET r == LookupFrom(d, p \o extra, None)
    IN  IF r.err = "KeyError" THEN [err |-> "", val |-> None] ELSE r
lookup_dict_path(d, p, extra) == LookupFrom(d, p \o extra, None)

----------------------------------------------------------------------------
(* Conversions *)

\* _ceph_time_to_seconds(val): val.split(".") needs a string; long() is mapped over
\* the pieces before they are unpacked into exactly two names
_ceph_time_to_seconds(val) ==
    IF val.k # "str" THEN [err |-> "AttributeError", val |-> None]
    ELSE LET pieces == SplitDot(val.v, << >>)
         IN  IF \E i \in 1..Len(pieces) : ~IsLong(pieces[i])
             THEN [err |-> "ValueError", val |-> None]
             ELSE IF Len(pieces) # 2 THEN [err |-> "ValueError", val |-> None]
             ELSE [err |-> "",
                   val |-> FloatV(Long(pieces[1]) * _NSEC_PER_SEC + Long(pieces[2]),
                                  _NSEC_PER_SEC)]

\* the unit names diamond.convertor.binary is given here
U_byte == <<"b","y","t","e">>
U_kilobyte == <<"k","i","l","o","b","y","t","e">>
U_megabyte == <<"m","e","g","a","b","y","t","e">>

UnitSize(unit) ==
    CASE unit = U_byte -> 1
      [] unit = U_kilobyte -> 1024
      [] unit = U_megabyte -> 1024 * 1024

\* diamond.convertor.binary.convert(value, oldUnit = 'byte', newUnit = unit): the
\* value scaled by a power of 1024.  The converter is applied to numbers; a value
\* that is no number makes the call fail.
Convert(value, unit) ==
    CASE value.k = "int" -> [err |-> "", val |-> FloatV(value.v, UnitSize(unit))]
      [] value.k = "float" ->
            [err |-> "", val |-> FloatV(value.v[1], value.v[2] * UnitSize(unit))]
      [] OTHER -> [err |-> "TypeError", val |-> None]

\* the loop of lines 196-200 over the units that remain
RECURSIVE ByteMetricsLoop(_, _, _, _)
ByteMetricsLoop(nm, value, units, acc) ==
    IF units = << >> THEN [err |-> "", result |-> acc]
    ELSE LET new_value == Convert(value, Head(units))
             new_name == Replace(nm, S_bytes, Head(units))
         IN  IF new_value.err # "" THEN [err |-> new_value.err, result |-> << >>]
             ELSE ByteMetricsLoop(nm, value, Tail(units),
                                  Append(acc, <<new_name, new_value.val>>))

_get_byte_metrics(nm, value) ==
    IF ~EndsWith(nm, S_bytes) THEN [err |-> "AssertionError", result |-> << >>]
    ELSE ByteMetricsLoop(nm, value, byte_unit, << >>)

\* sum / count of line 225, in Python 2: floor division of two integers, true
\* division of a float by an integer, TypeError for any other operand
Divide(a, b) ==
    CASE a.k = "int" /\ b.k = "int" -> [err |-> "", val |-> IntV(a.v \div b.v)]
      [] a.k = "float" /\ b.k = "int" ->
            [err |-> "", val |-> FloatV(a.v[1], a.v[2] * b.v)]
      [] OTHER -> [err |-> "TypeError", val |-> None]

\* (an average that divides whatever the count is)
AverageAlwaysDivides(sum, count) ==
    IF count.k = "int" /\ count.v = 0 THEN [err |-> "ZeroDivisionError", val |-> None]
    ELSE Divide(sum, count)
\* average = sum / count if count else 0.0
Average(sum, count) ==
    IF Truthy(count) THEN Divide(sum, count) ELSE [err |-> "", val |-> FloatV(0, 1)]

----------------------------------------------------------------------------
(* Publishing *)

\* one call of publish_gauge (kind "gauge") or publish_counter (kind "counter")
Call(kind, nm, value, precision) ==
    [kind |-> kind, name |-> nm, value |-> value, precision |-> precision]

\* the calls made for a list of (name, value) pairs
RECURSIVE Calls(_, _, _)
Calls(kind, pairs, precision) ==
    IF pairs = << >> THEN << >>
    ELSE <<Call(kind, pairs[1][1], pairs[1][2], precision)>>
         \o Calls(kind, Tail(pairs), precision)

Raise(e, p) == [err |-> e, calls |-> << >>, path |-> p]
Return(calls, p) == [err |-> "", calls |-> calls, path |-> p]

\* _publish_longrunavg(counter_prefix, stats, path, type); `path` in the result is
\* the list as the function leaves it
_publish_longrunavg(prefix, st, p, type) ==
    LET sum == lookup_dict_path(st, p, <<S_sum>>)
        count == lookup_dict_path(st, p, <<S_avgcount>>)
        secs == IF HasBit(type, _PERFCOUNTER_TIME)
                THEN _ceph_time_to_seconds(sum.val)
                ELSE [err |-> "", val |-> sum.val]
        average == Average(secs.val, count.val)
        p2 == [p EXCEPT ![Len(p)] = S_avg_ \o p[Len(p)]]
        nm == MetricName(prefix, p2)
        bm == _get_byte_metrics(nm, average.val)
    IN  IF sum.err # "" THEN Raise(sum.err, p)
        ELSE IF count.err # "" THEN Raise(count.err, p)
        ELSE IF secs.err # "" THEN Raise(secs.err, p)
        ELSE IF average.err # "" THEN Raise(average.err, p)
        ELSE IF p = << >> THEN Raise("IndexError", p)
        ELSE IF HasBit(type, _PERFCOUNTER_TIME)
             THEN Return(<<Call("gauge", nm, average.val, 6)>>, p2)
        ELSE IF HasBit(type, _PERFCOUNTER_U64)
             THEN IF EndsWith(nm, S_bytes)
                  THEN IF bm.err # "" THEN Raise(bm.err, p2)
                       ELSE Return(Calls("gauge", bm.result, 2), p2)
                  ELSE Return(<<Call("gauge", nm, average.val, 2)>>, p2)
        ELSE Return(<< >>, p2)

\* (a U64 value that always goes to publish_gauge)
AlwaysGauge(type) == "gauge"
\* lines 278-281: which publisher a U64 value goes to
PublishKind(type) == IF HasBit(type, _PERFCOUNTER_COUNTER) THEN "counter" ELSE "gauge"

\* one execution of the loop body of _publish_stats (lines 255-283) for the pair
\* (p0, type) the generator yielded
LoopBody(prefix, st, p0, type) ==
    LET p1 == DelLast(p0)
        nm == MetricName(prefix, p1)
        value == lookup_dict_path(st, p1, << >>)
        secs == _ceph_time_to_seconds(value.val)
        values == IF EndsWith(nm, S_bytes)
                  THEN _get_byte_metrics(nm, value.val)
                  ELSE [err |-> "", result |-> <<<<nm, value.val>>>>]
    IN  IF p0 = << >> THEN Raise("IndexError", p0)
        ELSE IF p0[Len(p0)] # S_type THEN Raise("AssertionError", p0)
        ELSE IF type.k # "int" THEN Raise("TypeError", p1)
        ELSE IF HasBit(type.v, _PERFCOUNTER_LONGRUNAVG)
             THEN _publish_longrunavg(prefix, st, p1, type.v)
        ELSE IF value.err # "" THEN Raise(value.err, p1)
        ELSE IF HasBit(type.v, _PERFCOUNTER_TIME)
             THEN IF secs.err # "" THEN Raise(secs.err, p1)
                  ELSE Return(<<Call("gauge", nm, secs.val, 6)>>, p1)
        ELSE IF HasBit(type.v, _PERFCOUNTER_U64)
             THEN IF values.err # "" THEN Raise(values.err, p1)
                  ELSE Return(Calls(PublishKind(type.v), values.result, 2), p1)
        ELSE Return(<< >>, p1)

----------------------------------------------------------------------------
(* The inputs: what the admin socket of a daemon answers to "perf dump" (stats)
   and "perf schema" (schema), decoded with floats left as strings *)

K_o == <<"o">>
K_a == <<"a">>
K_lat == <<"l","a","t">>
K_r_bytes == <<"r","_","b","y","t","e","s">>
K_z == <<"z">>
K_p == <<"p">>
K_q == <<"q">>
K_kind == <<"k","i","n","d">>
Prefix == <<"c">>

T_good == <<"1",".","5","0","0","0","0","0","0","0","0">>
T_nodot == <<"x">>
T_twodots == <<"1",".","5",".","5">>

LongRun(sum, avgcount) == DictV(<< <<S_sum, sum>>, <<S_avgcount, avgcount>> >>)

\* what the stats tree holds where the schema has the main counter
StatValues == <<
    [present |-> TRUE, val |-> IntV(5)],
    [present |-> TRUE, val |-> StrV(T_good)],
    [present |-> TRUE, val |-> StrV(T_nodot)],
    [present |-> TRUE, val |-> StrV(T_twodots)],
    [present |-> TRUE, val |-> LongRun(IntV(5), IntV(0))],
    [present |-> TRUE, val |-> LongRun(IntV(5), IntV(2))],
    [present |-> TRUE, val |-> LongRun(StrV(T_good), IntV(0))],
    [present |-> TRUE, val |-> LongRun(StrV(T_good), IntV(3))],
    [present |-> TRUE, val |-> LongRun(StrV(T_nodot), IntV(0))],
    [present |-> TRUE, val |-> LongRun(StrV(T_nodot), IntV(2))],
    [present |-> TRUE, val |-> DictV(<< <<S_sum, IntV(5)>> >>)],
    [present |-> FALSE, val |-> None] >>

MainNames == <<K_lat, K_r_bytes>>
AllTags == 0..15
\* the part of the inputs a whole collect() pass is run on: tags, indices into
\* StatValues, indices into UnitLists
WalkTags == <<_PERFCOUNTER_TIME, _PERFCOUNTER_U64,
              _PERFCOUNTER_LONGRUNAVG + _PERFCOUNTER_TIME,
              _PERFCOUNTER_LONGRUNAVG + _PERFCOUNTER_U64,
              _PERFCOUNTER_U64 + _PERFCOUNTER_COUNTER>>
WalkValues == <<1, 2, 3, 6, 8, 11, 12>>
WalkUnitLists == <<2>>

Item(key, value) == << <<key, value>> >>
Entry(tag) == DictV(Item(S_type, IntV(tag)))
If(cond, items) == IF cond THEN items ELSE << >>

\* a daemon section "o" holding the main counter, optionally between two plain
\* U64 counters "a" and "z" that are present in the stats
MakeInput(pre, main, tag, value, post) ==
    [prefix |-> Prefix,
     schema |-> DictV(Item(K_o, DictV(If(post, Item(K_z, Entry(_PERFCOUNTER_U64)))
                                       \o Item(main, Entry(tag))
                                       \o If(pre, Item(K_a, Entry(_PERFCOUNTER_U64)))))),
     stats |-> DictV(Item(K_o, DictV(If(pre, Item(K_a, IntV(7)))
                                      \o If(post, Item(K_z, IntV(9)))
                                      \o If(value.present, Item(main, value.val)))))]

\* other shapes of schema and stats
Shapes == <<
    \* empty mappings, at the top and nested
    [prefix |-> Prefix, schema |-> EmptyDict, stats |-> EmptyDict],
    [prefix |-> Prefix, schema |-> DictV(Item(K_o, EmptyDict)),
     stats |-> DictV(Item(K_o, EmptyDict))],
    \* sections of different depth, one of them empty
    [prefix |-> Prefix,
     schema |-> DictV(Item(K_q, DictV(Item(K_a, DictV(Item(K_z, Entry(_PERFCOUNTER_U64))))))
                      \o Item(K_p, EmptyDict)
                      \o Item(K_o, DictV(Item(K_lat, Entry(_PERFCOUNTER_TIME))))),
     stats |-> DictV(Item(K_q, DictV(Item(K_a, DictV(Item(K_z, IntV(4))))))
                     \o Item(K_o, DictV(Item(K_lat, StrV(T_good)))))],
    \* a schema entry without the 'type' marker
    [prefix |-> Prefix,
     schema |-> DictV(Item(K_o, DictV(Item(K_lat, DictV(Item(K_kind, IntV(_PERFCOUNTER_U64))))))),
     stats |-> DictV(Item(K_o, DictV(Item(K_lat, IntV(5)))))],
    \* a 'type' marker at the top of the schema
    [prefix |-> Prefix, schema |-> Entry(_PERFCOUNTER_U64), stats |-> EmptyDict],
    [prefix |-> Prefix, schema |-> Entry(_PERFCOUNTER_LONGRUNAVG + _PERFCOUNTER_U64),
     stats |-> LongRun(IntV(5), IntV(2))],
    \* a type tag that is no integer
    [prefix |-> Prefix,
     schema |-> DictV(Item(K_o, DictV(Item(K_lat, DictV(Item(S_type, StrV(T_nodot))))))),
     stats |-> DictV(Item(K_o, DictV(Item(K_lat, IntV(5)))))],
    \* an empty key
    [prefix |-> Prefix, schema |-> DictV(Item(K_o, DictV(Item(<< >>, Entry(_PERFCOUNTER_U64))))),
     stats |-> DictV(Item(K_o, DictV(Item(<< >>, IntV(5)))))],
    \* a stats section that is no mapping
    [prefix |-> Prefix, schema |-> DictV(Item(K_o, DictV(Item(K_lat, Entry(_PERFCOUNTER_U64))))),
     stats |-> DictV(Item(K_o, IntV(5)))] >>

\* values of self.config['byte_unit']
UnitLists == << <<U_byte>>, <<U_kilobyte, U_megabyte>>, <<U_megabyte, U_byte>>, << >> >>

----------------------------------------------------------------------------
(* The state machine *)

NoItem == [ref |-> "copy", copy |-> << >>, type |-> None]
NoPair == [path |-> << >>, value |-> None]

\* the locals of a _publish_stats call that is not running
NoCall ==
    /\ counter_prefix = << >> /\ stats = None /\ schema = None /\ gen = << >>
    /\ item = NoItem /\ leafno = 0 /\ published = << >> /\ emitted = << >>
    /\ base = << >> /\ yielded = NoPair

\* _publish_stats has returned or was left by an exception: its locals are gone
DropCall ==
    /\ counter_prefix' = << >> /\ stats' = None /\ schema' = None /\ gen' = << >>
    /\ item' = NoItem /\ leafno' = 0 /\ published' = << >> /\ emitted' = << >>
    /\ base' = << >> /\ yielded' = NoPair

NoByteCall == name = << >> /\ metric_value = None /\ result = << >>

\* the collector process has started: flatten_dictionary is defined (its default
\* list is empty) and the configuration is loaded
Init ==
    /\ \E u \in 1..Len(WalkUnitLists) : byte_unit = UnitLists[WalkUnitLists[u]]
    /\ path = << >>
    /\ pc = "idle" /\ pass = 0 /\ nsock = 0 /\ sock = 0 /\ err = ""
    /\ NoCall /\ NoByteCall

\* the scheduler calls collect(): _get_socket_paths globs n socket paths
StartPass ==
    /\ pc \in {"idle", "raised"}
    /\ pass < MaxPasses
    /\ pass' = pass + 1
    /\ \E n \in 0..MaxSources : nsock' = n
    /\ sock' = 0 /\ pc' = "query" /\ err' = ""
    /\ DropCall
    /\ UNCHANGED <<byte_unit, path, name, metric_value, result>>

\* collect() takes the next socket path, _get_perf_counters answers (stats, schema)
\* and _publish_stats reaches its for statement, which creates the generator
Query(inp) ==
    /\ pc = "query" /\ sock < nsock
    /\ sock' = sock + 1
    /\ counter_prefix' = inp.prefix /\ stats' = inp.stats /\ schema' = inp.schema
    /\ gen' = <<[d |-> inp.schema.v, i |-> 0]>>
    /\ base' = path /\ leafno' = 0 /\ published' = << >> /\ emitted' = << >>
    /\ item' = NoItem /\ yielded' = NoPair
    /\ pc' = "walk"
    /\ UNCHANGED <<byte_unit, path, pass, nsock, err, name, metric_value, result>>

\* _get_perf_counters raises: the command exits with a non-zero status (line 132)
\* or its output is no JSON (line 157)
QueryFails ==
    /\ pc = "query" /\ sock < nsock
    /\ sock' = sock + 1
    /\ \E e \in {"DecodeError", "ProcessError"} : err' = e
    /\ pc' = "raised"
    /\ DropCall
    /\ UNCHANGED <<byte_unit, path, pass, nsock, name, metric_value, result>>

\* the loop of collect() has taken every socket path
CollectReturns ==
    /\ pc = "query" /\ sock = nsock
    /\ pc' = "idle"
    /\ UNCHANGED <<byte_unit, path, pass, nsock, sock, counter_prefix, stats, schema, gen,
                   item, leafno, published, emitted, err, base, yielded,
                   name, metric_value, result>>

\* the for statement of _publish_stats asks the generator for the next pair
NextLeaf ==
    /\ pc = "walk"
    /\ LET r == Resume(gen, path, leafno > 0)
       IN  /\ path' = r.path
           /\ gen' = r.frames
           /\ IF r.done
              THEN pc' = "query" /\ UNCHANGED <<item, leafno, yielded>>
              ELSE /\ pc' = "body"
                   /\ item' = YieldPair(r.path, r.value)
                   /\ leafno' = leafno + 1
                   /\ yielded' = [path |-> r.path, value |-> r.value]
    /\ UNCHANGED <<byte_unit, pass, nsock, sock, counter_prefix, stats, schema,
                   published, emitted, err, base, name, metric_value, result>>

\* the loop body runs for the pair; an exception leaves _publish_stats and
\* collect(), and the generator is discarded where it is suspended, at its yield
Body ==
    /\ pc = "body"
    /\ LET r == LoopBody(counter_prefix, stats, Deref(item, path), item.type)
       IN  /\ item' = IF item.ref = "copy" THEN [item EXCEPT !.copy = r.path] ELSE item
           /\ path' = IF item.ref = "copy" THEN path ELSE r.path
           /\ emitted' = r.calls
           /\ published' = published \o r.calls
           /\ err' = r.err
           /\ pc' = IF r.err = "" THEN "walk" ELSE "raised"
           /\ gen' = IF r.err = "" THEN gen ELSE << >>
    /\ UNCHANGED <<byte_unit, pass, nsock, sock, counter_prefix, stats, schema,
                   leafno, base, yielded, name, metric_value, result>>

Next ==
    \/ StartPass
    \/ \E pre \in BOOLEAN, post \in BOOLEAN, m \in 1..Len(MainNames),
          t \in 1..Len(WalkTags), i \in 1..Len(WalkValues) :
          Query(MakeInput(pre, MainNames[m], WalkTags[t], StatValues[WalkValues[i]], post))
    \/ \E i \in 1..Len(Shapes) : Query(Shapes[i])
    \/ QueryFails
    \/ CollectReturns
    \/ NextLeaf
    \/ Body

Spec == Init /\ [][Next]_vars

----------------------------------------------------------------------------
(* _publish_stats on its own: one call, in a process that has walked no schema
   yet, over every type tag and every shape of the stats value *)

InitLeaf ==
    /\ \E u \in 1..Len(UnitLists) : byte_unit = UnitLists[u]
    /\ path = << >>
    /\ pc = "walk" /\ pass = 1 /\ nsock = 1 /\ sock = 1 /\ err = ""
    /\ \E pre \in BOOLEAN, post \in BOOLEAN, m \in 1..Len(MainNames), tag \in AllTags,
          i \in 1..Len(StatValues) :
          LET inp == MakeInput(pre, MainNames[m], tag, StatValues[i], post)
          IN  /\ counter_prefix = inp.prefix /\ stats = inp.stats /\ schema = inp.schema
              /\ gen = <<[d |-> inp.schema.v, i |-> 0]>>
    /\ item = NoItem /\ leafno = 0 /\ published = << >> /\ emitted = << >>
    /\ base = << >> /\ yielded = NoPair
    /\ NoByteCall

NextInCall == NextLeaf \/ Body

SpecLeaf == InitLeaf /\ [][NextInCall]_vars

----------------------------------------------------------------------------
(* _get_byte_metrics on its own *)

ByteNames == <<
    S_bytes,
    K_r_bytes,
    Join(_PATH_SEP, <<Prefix, K_o, K_r_bytes>>),
    Join(_PATH_SEP, <<Prefix, K_o, S_avg_ \o K_r_bytes>>),
    Join(_PATH_SEP, <<Prefix, S_bytes, K_r_bytes>>),
    Join(_PATH_SEP, <<Prefix \o <<"-">> \o S_bytes, K_o, K_lat \o <<"_">> \o S_bytes>>),
    Join(_PATH_SEP, <<Prefix, K_o, S_bytes \o <<"_">> \o K_r_bytes>>),
    Join(_PATH_SEP, <<Prefix, K_o, K_lat>>) >>

ByteValues == <<IntV(0), IntV(5), IntV(1024 * 1024), FloatV(5, 2)>>

InitBytes ==
    /\ \E u \in 1..Len(UnitLists) : byte_unit = UnitLists[u]
    /\ \E n \in 1..Len(ByteNames) : name = ByteNames[n]
    /\ \E v \in 1..Len(ByteValues) : metric_value = ByteValues[v]
    /\ result = << >>
    /\ path = << >>
    /\ pc = "bytes" /\ pass = 0 /\ nsock = 0 /\ sock = 0 /\ err = ""
    /\ NoCall

GetByteMetrics ==
    /\ pc = "bytes"
    /\ LET r == _get_byte_metrics(name, metric_value)
       IN  result' = r.result /\ err' = r.err
    /\ pc' = "bytes_done"
    /\ UNCHANGED <<byte_unit, path, pass, nsock, sock, counter_prefix, stats, schema, gen,
                   item, leafno, published, emitted, base, yielded, name, metric_value>>

SpecBytes == InitBytes /\ [][GetByteMetrics]_vars

----------------------------------------------------------------------------
(* Reference definitions the properties are stated with *)

\* the pairs of the docstring of flatten_dictionary, built without a shared buffer:
\* depth first, keys in sorted order, one pair per value that is no mapping
RECURSIVE FlatPairs(_, _)
FlatPairs(items, prefix) ==
    IF items = << >> THEN << >>
    ELSE LET here == Append(prefix, items[1][1])
             value == items[1][2]
             first == IF value.k = "dict"
                      THEN FlatPairs(Sorted(value.v), here)
                      ELSE <<[path |-> here, value |-> value]>>
         IN  first \o FlatPairs(Tail(items), prefix)

Flat(tree) == FlatPairs(Sorted(tree.v), << >>)

\* the tree lacks a segment of the key path: some mapping on the way has no such key
RECURSIVE Lacks(_, _)
Lacks(d, comps) ==
    /\ comps # << >>
    /\ d.k = "dict"
    /\ IF HasKey(d.v, Head(comps)) THEN Lacks(Get(d.v, Head(comps)), Tail(comps)) ELSE TRUE

\* every segment of the key path is there
RECURSIVE Has(_, _)
Has(d, comps) ==
    IF comps = << >> THEN TRUE
    ELSE /\ d.k = "dict"
         /\ HasKey(d.v, Head(comps))
         /\ Has(Get(d.v, Head(comps)), Tail(comps))

RECURSIVE At(_, _)
At(d, comps) == IF comps = << >> THEN d ELSE At(Get(d.v, Head(comps)), Tail(comps))

\* "<integer-seconds>.<integer-nanoseconds>"
WellFormedTime(x) ==
    /\ x.k = "str"
    /\ \E i \in 1..Len(x.v) :
        /\ x.v[i] = "."
        /\ i > 1 /\ i < Len(x.v)
        /\ \A j \in 1..Len(x.v) : j # i => IsDigit(x.v[j])

\* the loop body has run for the pair in `yielded`
BodyRan == leafno > 0 /\ pc # "body" /\ pc # "bytes" /\ pc # "bytes_done"

\* the pair in `yielded` is a schema entry: a path ending in 'type' and an integer tag
IsEntry == /\ yielded.path # << >>
           /\ yielded.path[Len(yielded.path)] = S_type
           /\ yielded.value.k = "int"

MetricPath == DelLast(yielded.path)
Tag == yielded.value.v
Is(bit) == HasBit(Tag, bit)

\* the path with its last segment renamed avg_<original>
AvgPath == [MetricPath EXCEPT ![Len(MetricPath)] = S_avg_ \o MetricPath[Len(MetricPath)]]

\* the name with only its trailing "bytes" replaced by the unit
SuffixReplaced(nm, unit) == SubSeq(nm, 1, Len(nm) - Len(S_bytes)) \o unit

Zero == FloatV(0, 1)

\* one call per unit, in the order of the units: the name with "bytes" replaced by
\* the unit name, the value in that unit
RECURSIVE PerUnit(_, _, _, _)
PerUnit(kind, nm, value, units) ==
    IF units = << >> THEN << >>
    ELSE <<Call(kind, Replace(nm, S_bytes, Head(units)), Convert(value, Head(units)).val, 2)>>
         \o PerUnit(kind, nm, value, Tail(units))

----------------------------------------------------------------------------
(* C1 *)

\* C1 (as claimed): whenever a new top-level flatten begins, the flattener's working
\* path buffer is empty, so the paths it yields depend on the schema alone.
C1_BufferEmptyWhenFlattenBegins ==
    (pc = "walk" /\ leafno = 0) => path = << >>

----------------------------------------------------------------------------
(* C2 *)

\* C2 (as claimed): when a collect() pass is over, also one in which a source failed
\* fatally, every socket path discovered in the pass has been queried.
C2_EverySourceOfThePassQueried ==
    (pass > 0 /\ pc \in {"idle", "raised"}) => sock = nsock

----------------------------------------------------------------------------
(* C3 *)

\* the string the TIME conversion of the current entry is applied to, if it is there
TimeOperand ==
    IF Is(_PERFCOUNTER_LONGRUNAVG) THEN MetricPath \o <<S_sum>> ELSE MetricPath

\* C3 (as claimed): a malformed time string at a leaf tagged TIME stops only that
\* leaf: nothing is published for it and _publish_stats goes on with the next leaf,
\* in the plain branch and in the LONGRUNAVG branch.
C3_MalformedTimeSkipsOnlyThatLeaf ==
    ( /\ BodyRan /\ IsEntry /\ Is(_PERFCOUNTER_TIME)
      /\ Has(stats, TimeOperand)
      /\ Is(_PERFCOUNTER_LONGRUNAVG) => Has(stats, MetricPath \o <<S_avgcount>>)
      /\ At(stats, TimeOperand).k = "str"
      /\ ~WellFormedTime(At(stats, TimeOperand)) )
    => (emitted = << >> /\ err = "" /\ pc # "raised")

----------------------------------------------------------------------------
(* C4 *)

\* the stats hold what the entry's branch looks up
OperandsPresent ==
    IF Is(_PERFCOUNTER_LONGRUNAVG)
    THEN Has(stats, MetricPath \o <<S_sum>>) /\ Has(stats, MetricPath \o <<S_avgcount>>)
    ELSE Has(stats, MetricPath)

\* C4 (as claimed): a leaf whose tag has neither TIME nor U64 set is skipped, whatever
\* the stats value is: nothing is published, no error is raised, the walk goes on.
C4_UntypedLeafIsSkipped ==
    ( /\ BodyRan /\ IsEntry
      /\ ~Is(_PERFCOUNTER_TIME) /\ ~Is(_PERFCOUNTER_U64)
      /\ OperandsPresent )
    => (emitted = << >> /\ err = "" /\ pc # "raised")

----------------------------------------------------------------------------
(* C5 *)

\* C5 (as claimed): for a name ending in "bytes", _get_byte_metrics returns one pair
\* per configured unit, in the configured order, each named as the input with only
\* its trailing "bytes" replaced by the unit.
C5_OnlyTheSuffixIsReplaced ==
    (pc = "bytes_done" /\ EndsWith(name, S_bytes))
    => /\ err = ""
       /\ Len(result) = Len(byte_unit)
       /\ \A i \in 1..Len(result) : result[i][1] = SuffixReplaced(name, byte_unit[i])

----------------------------------------------------------------------------
(* C6 *)

\* a LONGRUNAVG entry with TIME or U64 whose stats subtree has sum and an integer avgcount
IsAverage ==
    /\ BodyRan /\ IsEntry
    /\ Is(_PERFCOUNTER_LONGRUNAVG)
    /\ Is(_PERFCOUNTER_TIME) \/ Is(_PERFCOUNTER_U64)
    /\ OperandsPresent
    /\ At(stats, MetricPath \o <<S_avgcount>>).k = "int"

Sum == At(stats, MetricPath \o <<S_sum>>)
Count == At(stats, MetricPath \o <<S_avgcount>>).v
AvgName == MetricName(counter_prefix, AvgPath)

\* the gauges a U64 average goes out as
U64Gauges(average) ==
    IF EndsWith(AvgName, S_bytes)
    THEN PerUnit("gauge", AvgName, average, byte_unit)
    ELSE <<Call("gauge", AvgName, average, 2)>>

----------------------------------------------------------------------------
(* C7 *)

PlainValue == At(stats, MetricPath)
PlainName == MetricName(counter_prefix, MetricPath)

\* C7: a plain U64 leaf (TIME and LONGRUNAVG clear) whose name ends in "bytes" and
\* whose stats value is an integer goes out as exactly one call per configured unit at
\* precision 2: publish_counter calls only when COUNTER is set, and the same names
\* and values as publish_gauge calls only when it is clear.
C7_BytesLeafOneCallPerUnit ==
    ( /\ BodyRan /\ IsEntry
      /\ Is(_PERFCOUNTER_U64) /\ ~Is(_PERFCOUNTER_TIME) /\ ~Is(_PERFCOUNTER_LONGRUNAVG)
      /\ Has(stats, MetricPath) /\ PlainValue.k = "int"
      /\ EndsWith(PlainName, S_bytes) )
    => /\ err = ""
       /\ emitted = PerUnit(IF Is(_PERFCOUNTER_COUNTER) THEN "counter" ELSE "gauge",
                            PlainName, PlainValue, byte_unit)

C7_Witness ==
    /\ BodyRan /\ IsEntry
    /\ Tag = _PERFCOUNTER_U64 + _PERFCOUNTER_COUNTER
    /\ Has(stats, MetricPath) /\ PlainValue.k = "int"
    /\ EndsWith(PlainName, S_bytes)
    /\ Len(emitted) = 2 /\ emitted[1].kind = "counter" /\ emitted[2].kind = "counter"

----------------------------------------------------------------------------
(* C8 *)

\* C8 (as claimed): for every pair flatten_dictionary yields for a tree,
\* lookup_dict_path(tree, path) returns exactly the value of the pair.
C8_LookupReturnsTheYieldedValue ==
    pc = "body" =>
        lookup_dict_path(schema, yielded.path, << >>) = [err |-> "", val |-> yielded.value]

----------------------------------------------------------------------------
(* C9 *)

\* the stats tree lacks a segment of the entry's path, or the 'sum' or 'avgcount'
\* child the LONGRUNAVG branch looks up
KeyMissing ==
    IF Is(_PERFCOUNTER_LONGRUNAVG)
    THEN Lacks(stats, MetricPath \o <<S_sum>>) \/ Lacks(stats, MetricPath \o <<S_avgcount>>)
    ELSE Lacks(stats, MetricPath)

\* what the loop body publishes for the first n pairs of the walk
RECURSIVE CallsOfFirst(_)
CallsOfFirst(n) ==
    IF n = 0 THEN << >>
    ELSE CallsOfFirst(n - 1)
         \o LoopBody(counter_prefix, stats, base \o Flat(schema)[n].path,
                     Flat(schema)[n].value).calls

\* C9: when the stats tree lacks a segment of a schema leaf's path (or the 'sum' or
\* 'avgcount' child of a LONGRUNAVG leaf), the KeyError leaves _publish_stats at that
\* leaf: nothing is published for the leaf, the walk is over, and what the leaves
\* before it published stays published.
C9_MissingKeyStopsTheSource ==
    (BodyRan /\ IsEntry /\ KeyMissing)
    => /\ pc = "raised" /\ err = "KeyError"
       /\ gen = << >>
       /\ emitted = << >>
       /\ published = CallsOfFirst(leafno - 1)

C9_Witness ==
    /\ BodyRan /\ IsEntry /\ KeyMissing
    /\ pc = "raised" /\ err = "KeyError"
    /\ leafno = 2 /\ Len(published) >= 1 /\ Len(Flat(schema)) = 3

----------------------------------------------------------------------------
(* C10 *)

\* C10: what the loop body does to the path it was handed (dropping 'type', renaming
\* the last segment avg_<original>) stays in that copy: the generator's buffer still
\* holds the path as yielded, and every pair yielded later is the next pair of the
\* schema, which the walk leaves as it was.
C10_YieldedPathsAreCopies ==
    (leafno > 0 /\ pc \in {"body", "walk", "raised"})
    => /\ leafno <= Len(Flat(schema))
       /\ yielded.path = base \o Flat(schema)[leafno].path
       /\ yielded.value = Flat(schema)[leafno].value
       /\ path = yielded.path
       /\ pc = "body" => Deref(item, path) = yielded.path

C10_Witness ==
    /\ pc = "body" /\ leafno = 3
    /\ Flat(schema)[2].value = IntV(_PERFCOUNTER_LONGRUNAVG + _PERFCOUNTER_TIME)
    /\ emitted # << >>
    /\ StartsWith(emitted[1].name, MetricName(counter_prefix, <<K_o, S_avg_>>))

====
